---- MODULE Spec2Model ----
(***************************************************************************)
(* Model of package remote (remote.go): the remote File syncer and the     *)
(* recursive watch registry.  One File object `f` is the receiver of the   *)
(* operations; `remote` is the remote store behind the freehold client;    *)
(* `watching` is the process-wide watch registry; `last` records the last  *)
(* operation, its result and the calls it made, in order; `calls` holds    *)
(* the StartMonitor and StopMonitor calls of two goroutines that run at    *)
(* the same time, step by step.                                            *)
(***************************************************************************)
EXTENDS Naturals, Sequences, FiniteSets

VARIABLES f, remote, watching, last, calls

vars == <<f, remote, watching, last, calls>>

(***************************************************************************)
(* Bounds of the remote tree and of the inputs.                            *)
(***************************************************************************)
\* depth of the chain of nested directories below the root
MaxDepth == 2
\* sizes of uploaded objects are 1..MaxSize
MaxSize == 2
\* time.Time{}, the zero time
ZeroTime == 0

\* the modification times the callers pass and the server reports
Times == {1}

(***************************************************************************)
(* Paths.  A path is a sequence of child indexes; <<>> is the remote root  *)
(* folder.  Index 0 is a file, the other indexes are folders.              *)
(***************************************************************************)
Root == <<>>

RECURSIVE Chain(_)
Chain(k) == IF k = 0 THEN <<>> ELSE Append(Chain(k - 1), 1)

ChainDirs == {Chain(k) : k \in 1..MaxDepth}

\* one more folder directly below the root, listed after the chain
SibDirs == {<<2>>}

DirPaths == {Root} \cup ChainDirs \cup SibDirs

FilePaths == {<<0>>}

Paths == DirPaths \cup FilePaths

IsPrefix(a, b) == Len(a) <= Len(b) /\ SubSeq(b, 1, Len(a)) = a

\* the paths strictly below path n
Below(n) == {m \in Paths : m # n /\ IsPrefix(n, m)}

ParentOf(n) == SubSeq(n, 1, Len(n) - 1)

\* the name Rename builds from name n at time t: n with the time stamp put
\* before its extension, a name of the same folder that differs from n and
\* from the names of the initial store
Stamped(n, t) == Append(ParentOf(n), n[Len(n)] + 2 + t)

StampedPaths == {Stamped(n, t) : n \in FilePaths, t \in Times}

\* the names the remote store keeps track of
StorePaths == Paths \cup StampedPaths

\* the paths directly below n, in the order the server lists them
ChildPaths(n) ==
  SelectSeq(<<Append(n, 0), Append(n, 1), Append(n, 2), Append(n, 3)>>,
            LAMBDA c : c \in StorePaths)

(***************************************************************************)
(* Profiles.  NilProfile is the nil *syncer.Profile.                       *)
(***************************************************************************)
Profiles == {"P", "Q"}

NilProfile == "nil"

(***************************************************************************)
(* Remote objects and handles (fh.File).                                   *)
(***************************************************************************)
NoObject ==
  [present |-> FALSE, IsDir |-> FALSE, Size |-> 0, ModifiedTime |-> ZeroTime]

DirObject == [present |-> TRUE, IsDir |-> TRUE, Size |-> 0, ModifiedTime |-> 1]

FileObject(size, modTime) ==
  [present |-> TRUE, IsDir |-> FALSE, Size |-> size, ModifiedTime |-> modTime]

\* the nil *fh.File
NoHandle ==
  [valid |-> FALSE, URL |-> Root, IsDir |-> FALSE, Size |-> 0,
   ModifiedTime |-> ZeroTime]

\* the handle the client returns for the object now at path n
HandleOf(store, n) ==
  [valid |-> TRUE, URL |-> n, IsDir |-> store[n].IsDir, Size |-> store[n].Size,
   ModifiedTime |-> store[n].ModifiedTime]

\* the remote store the operations start from: every path holds its object
InitRemote ==
  [n \in StorePaths |-> IF n \in DirPaths THEN DirObject
                        ELSE IF n \in FilePaths THEN FileObject(1, 1)
                        ELSE NoObject]

\* the store without the object at n and without everything below it
RemoveObject(store, n) ==
  [m \in StorePaths |-> IF IsPrefix(n, m) THEN NoObject ELSE store[m]]

\* whether the server can still serve a call on handle h
Serves(store, h) == h.valid /\ store[h.URL].present

(***************************************************************************)
(* Results and the record of calls.                                        *)
(***************************************************************************)
Ok == "ok"

InvalidOperation == "InvalidOperation"

InvalidState == "InvalidState"

NotFound == "NotFound"

BoundaryError == "BoundaryError"

\* one call made by an operation: what, for which profile, on which path, and
\* whether it succeeded (for watching.remove: whether the pair was there)
Ev(call, p, n, ok) == [call |-> call, p |-> p, n |-> n, ok |-> ok]

(***************************************************************************)
(* File: construction and accessors.                                       *)
(***************************************************************************)
\* client.RootURL() with its Path set to n
FullURLOf(n) == [host |-> "root", path |-> n]

newFromFile(h) ==
  [exists |-> TRUE, deleted |-> FALSE, URL |-> h.URL, FullURL |-> FullURLOf(h.URL),
   ModifiedTime |-> h.ModifiedTime, file |-> h]

newEmptyFile(n) ==
  [exists |-> FALSE, deleted |-> FALSE, URL |-> n, FullURL |-> FullURLOf(n),
   ModifiedTime |-> ZeroTime, file |-> NoHandle]

\* Path(p) for a profile whose remote root is the folder at rootURL: the URL
\* itself for the profile's root, the URL without the root's prefix otherwise
Path(e, rootURL) ==
  IF e.FullURL = FullURLOf(rootURL) THEN e.URL
  ELSE IF IsPrefix(rootURL, e.URL)
       THEN SubSeq(e.URL, Len(rootURL) + 1, Len(e.URL))
       ELSE e.URL

\* New(client, filePath); getFails: client.GetFile fails with an error other
\* than not-found.  err = TRUE stands for the (nil, err) return.
New(store, n, getFails) ==
  IF getFails THEN [err |-> TRUE, file |-> newEmptyFile(n)]
  ELSE IF ~store[n].present THEN [err |-> FALSE, file |-> newEmptyFile(n)]
  ELSE [err |-> FALSE, file |-> newFromFile(HandleOf(store, n))]

ID(e) == e.FullURL

IsDir(e) == IF ~e.exists THEN FALSE ELSE e.file.IsDir

Exists(e) == e.exists

Deleted(e) == e.deleted

Size(e) == IF ~e.exists THEN 0 ELSE e.file.Size

\* Modified without the test for a folder
ModifiedOfFolders(e) == IF e.exists THEN e.ModifiedTime ELSE ZeroTime

Modified(e) == IF ~IsDir(e) /\ e.exists THEN e.ModifiedTime ELSE ZeroTime

\* the objects now directly below path n, as the server lists them
Listing(store, n) == SelectSeq(ChildPaths(n), LAMBDA c : store[c].present)

\* Children(); bad: the paths whose listing the server fails
Children(e, store, bad) ==
  IF ~e.exists THEN [err |-> FALSE, list |-> <<>>, log |-> <<>>]
  ELSE IF e.file.URL \in bad \/ ~Serves(store, e.file) \/ ~store[e.file.URL].IsDir
  THEN [err |-> TRUE, list |-> <<>>,
        log |-> <<Ev("Children", NilProfile, e.file.URL, FALSE)>>]
  ELSE LET ls == Listing(store, e.file.URL) IN
       [err |-> FALSE,
        list |-> [i \in 1..Len(ls) |-> newFromFile(HandleOf(store, ls[i]))],
        log |-> <<Ev("Children", NilProfile, e.file.URL, TRUE)>>]

\* Read(p) and Close(): what the call comes to
Read(e) == IF ~e.exists THEN NotFound ELSE "forwarded"

Close(e) == IF ~e.exists THEN NotFound ELSE "forwarded"

(***************************************************************************)
(* The watch registry: a set of (profile, file id) pairs.                  *)
(***************************************************************************)
has(w, p, e) == <<p, ID(e)>> \in w

add(w, p, e) == w \cup {<<p, ID(e)>>}

remove(w, p, e) == w \ {<<p, ID(e)>>}

\* the change handler called for child c under profile p
changeHandler(p, c) == <<Ev("changeHandler", p, c.URL, TRUE)>>

\* the delete-tracking store call for file id
deleteRemoteFileFromDS(e, dsFails) == <<Ev("deleteRemoteFileFromDS", NilProfile, e.URL, ~dsFails)>>

(***************************************************************************)
(* Monitor controller.                                                     *)
(***************************************************************************)
\* the loop of StartMonitor: one change event per child, in listing order
RECURSIVE Dispatch(_, _, _)
Dispatch(p, list, i) ==
  IF i > Len(list) THEN <<>>
  ELSE changeHandler(p, list[i]) \o Dispatch(p, list, i + 1)

\* StartMonitor without the watching.has test
StartMonitorNoHas(e, p, w, store, bad) ==
  IF ~IsDir(e) THEN [ret |-> InvalidOperation, watching |-> w, log |-> <<>>]
  ELSE LET ch == Children(e, store, bad) IN
       IF ch.err THEN [ret |-> BoundaryError, watching |-> w, log |-> ch.log]
       ELSE [ret |-> Ok, watching |-> add(w, p, e),
             log |-> ch.log \o Dispatch(p, ch.list, 1)
                       \o <<Ev("watching.add", p, e.URL, TRUE)>>]

\* StartMonitor registering before it lists the children
StartMonitorAddFirst(e, p, w, store, bad) ==
  IF ~IsDir(e) THEN [ret |-> InvalidOperation, watching |-> w, log |-> <<>>]
  ELSE IF has(w, p, e) THEN [ret |-> Ok, watching |-> w, log |-> <<>>]
  ELSE LET ch == Children(e, store, bad)
           reg == <<Ev("watching.add", p, e.URL, TRUE)>>
       IN IF ch.err
          THEN [ret |-> BoundaryError, watching |-> add(w, p, e), log |-> reg \o ch.log]
          ELSE [ret |-> Ok, watching |-> add(w, p, e),
                log |-> reg \o ch.log \o Dispatch(p, ch.list, 1)]

StartMonitor(e, p, w, store, bad) ==
  IF ~IsDir(e) THEN [ret |-> InvalidOperation, watching |-> w, log |-> <<>>]
  ELSE IF has(w, p, e) THEN [ret |-> Ok, watching |-> w, log |-> <<>>]
  ELSE LET ch == Children(e, store, bad) IN
       IF ch.err THEN [ret |-> BoundaryError, watching |-> w, log |-> ch.log]
       ELSE [ret |-> Ok, watching |-> add(w, p, e),
             log |-> ch.log \o Dispatch(p, ch.list, 1)
                       \o <<Ev("watching.add", p, e.URL, TRUE)>>]

RECURSIVE stopWatcherRecursive(_, _, _, _, _)
RECURSIVE stopChildren(_, _, _, _, _, _)

\* the loop leaving the child folders alone
stopChildrenSkip(list, i, p, w, store, bad) ==
  [err |-> FALSE, watching |-> w, log |-> <<>>]

\* stopWatcherRecursive removing its own pair before it descends
stopWatcherRecursiveSelfFirst(e, p, w, store, bad) ==
  LET ch == Children(e, store, bad) IN
  IF ch.err THEN [err |-> TRUE, watching |-> w, log |-> ch.log]
  ELSE LET own == <<Ev("watching.remove", p, e.URL, has(w, p, e))>>
           r == stopChildren(ch.list, 1, p, remove(w, p, e), store, bad)
       IN [err |-> r.err, watching |-> r.watching, log |-> ch.log \o own \o r.log]

\* the loop of stopWatcherRecursive over children list[i..]
stopChildren(list, i, p, w, store, bad) ==
  IF i > Len(list) THEN [err |-> FALSE, watching |-> w, log |-> <<>>]
  ELSE IF IsDir(list[i])
  THEN LET r == stopWatcherRecursive(list[i], p, w, store, bad) IN
       IF r.err THEN r
       ELSE LET rest == stopChildren(list, i + 1, p, r.watching, store, bad) IN
            [err |-> rest.err, watching |-> rest.watching, log |-> r.log \o rest.log]
  ELSE stopChildren(list, i + 1, p, w, store, bad)

stopWatcherRecursive(e, p, w, store, bad) ==
  LET ch == Children(e, store, bad) IN
  IF ch.err THEN [err |-> TRUE, watching |-> w, log |-> ch.log]
  ELSE LET r == stopChildren(ch.list, 1, p, w, store, bad) IN
       IF r.err THEN [err |-> TRUE, watching |-> r.watching, log |-> ch.log \o r.log]
       ELSE [err |-> FALSE, watching |-> remove(r.watching, p, e),
             log |-> ch.log \o r.log
                       \o <<Ev("watching.remove", p, e.URL, has(r.watching, p, e))>>]

\* StopMonitor without the test for a folder
StopMonitorOfAnyFile(e, p, w, store, bad) ==
  IF ~has(w, p, e) THEN [ret |-> Ok, watching |-> w, log |-> <<>>]
  ELSE LET r == stopWatcherRecursive(e, p, w, store, bad) IN
       [ret |-> IF r.err THEN BoundaryError ELSE Ok, watching |-> r.watching,
        log |-> r.log]

\* StopMonitor without the test of the registry
StopMonitorNoHas(e, p, w, store, bad) ==
  IF ~IsDir(e) THEN [ret |-> InvalidOperation, watching |-> w, log |-> <<>>]
  ELSE LET r == stopWatcherRecursive(e, p, w, store, bad) IN
       [ret |-> IF r.err THEN BoundaryError ELSE Ok, watching |-> r.watching,
        log |-> r.log]

StopMonitor(e, p, w, store, bad) ==
  IF ~IsDir(e) THEN [ret |-> InvalidOperation, watching |-> w, log |-> <<>>]
  ELSE IF ~has(w, p, e) THEN [ret |-> Ok, watching |-> w, log |-> <<>>]
  ELSE LET r == stopWatcherRecursive(e, p, w, store, bad) IN
       [ret |-> IF r.err THEN BoundaryError ELSE Ok, watching |-> r.watching,
        log |-> r.log]

(***************************************************************************)
(* Delete and Write.                                                       *)
(***************************************************************************)
\* Delete without the exists test
DeleteNoExistsTest(e, w, store, dsFails, bad, delFails) ==
  LET ds == deleteRemoteFileFromDS(e, dsFails)
      ok == Serves(store, e.file) /\ ~delFails
  IN IF dsFails
     THEN [ret |-> BoundaryError, f |-> e, watching |-> w, remote |-> store,
           log |-> ds]
     ELSE [ret |-> IF ok THEN Ok ELSE BoundaryError, f |-> e, watching |-> w,
           remote |-> IF ok THEN RemoveObject(store, e.file.URL) ELSE store,
           log |-> ds \o <<Ev("file.Delete", NilProfile, e.file.URL, ok)>>]

\* the steps of Delete after the exists test and a successful call of the
\* delete-tracking store (calls ds)
DeleteExisting(e, w, store, ds, bad, delFails) ==
  LET st == IF IsDir(e)
            THEN stopWatcherRecursive(e, NilProfile, w, store, bad)
            ELSE [err |-> FALSE, watching |-> w, log |-> <<>>]
  IN IF st.err
     THEN [ret |-> BoundaryError, f |-> e, watching |-> st.watching,
           remote |-> store, log |-> ds \o st.log]
     ELSE LET ok == Serves(store, e.file) /\ ~delFails IN
          [ret |-> IF ok THEN Ok ELSE BoundaryError, f |-> e,
           watching |-> st.watching,
           remote |-> IF ok THEN RemoveObject(store, e.file.URL) ELSE store,
           log |-> ds \o st.log
                     \o <<Ev("file.Delete", NilProfile, e.file.URL, ok)>>]

\* Delete going on when the delete-tracking store has failed
DeleteIgnoresDSError(e, w, store, dsFails, bad, delFails) ==
  IF ~e.exists
  THEN [ret |-> Ok, f |-> e, watching |-> w, remote |-> store, log |-> <<>>]
  ELSE DeleteExisting(e, w, store, deleteRemoteFileFromDS(e, dsFails), bad, delFails)

\* Delete marking the file as gone once the server has deleted it
DeleteMarksGone(e, w, store, dsFails, bad, delFails) ==
  IF ~e.exists
  THEN [ret |-> Ok, f |-> e, watching |-> w, remote |-> store, log |-> <<>>]
  ELSE LET ds == deleteRemoteFileFromDS(e, dsFails) IN
       IF dsFails
       THEN [ret |-> BoundaryError, f |-> e, watching |-> w, remote |-> store,
             log |-> ds]
       ELSE LET r == DeleteExisting(e, w, store, ds, bad, delFails) IN
            IF r.ret = Ok
            THEN [r EXCEPT !.f = [e EXCEPT !.exists = FALSE, !.deleted = TRUE]]
            ELSE r

\* dsFails: the delete-tracking store fails; bad: the listings that fail;
\* delFails: the server fails file.Delete
Delete(e, w, store, dsFails, bad, delFails) ==
  IF ~e.exists
  THEN [ret |-> Ok, f |-> e, watching |-> w, remote |-> store, log |-> <<>>]
  ELSE LET ds == deleteRemoteFileFromDS(e, dsFails) IN
       IF dsFails
       THEN [ret |-> BoundaryError, f |-> e, watching |-> w, remote |-> store,
             log |-> ds]
       ELSE DeleteExisting(e, w, store, ds, bad, delFails)

\* Rename at time t; moveFails: the server refuses the move.  file.Move moves
\* the object on the server and, on success, sets the URL of the handle it
\* was called on.
Rename(e, store, t, moveFails) ==
  IF ~Exists(e)
  THEN [ret |-> InvalidState, f |-> e, remote |-> store, log |-> <<>>]
  ELSE IF IsDir(e)
  THEN [ret |-> InvalidOperation, f |-> e, remote |-> store, log |-> <<>>]
  ELSE LET newName == Stamped(e.file.URL, t)
           ok == Serves(store, e.file) /\ ~moveFails
       IN [ret |-> IF ok THEN Ok ELSE BoundaryError,
           f |-> IF ok THEN [e EXCEPT !.file.URL = newName] ELSE e,
           remote |-> IF ok
                      THEN [store EXCEPT ![e.file.URL] = NoObject,
                                         ![newName] = store[e.file.URL]]
                      ELSE store,
           log |-> <<Ev("file.Move", NilProfile, newName, ok)>>]

\* whether the server accepts an upload to path n: its folder must be there
CanUpload(store, n) ==
  n # Root /\ store[ParentOf(n)].present /\ store[ParentOf(n)].IsDir

\* the upload of Write marking the file as not existing when the upload fails
UploadMarksAbsent(e, s1, size, modTime, upFails, closeFails, dlog) ==
  IF ~(CanUpload(s1, e.URL) /\ ~upFails)
  THEN [ret |-> BoundaryError,
        f |-> [e EXCEPT !.exists = FALSE, !.file = NoHandle], remote |-> s1,
        log |-> dlog \o <<Ev("UploadFromReader", NilProfile, e.URL, FALSE)>>]
  ELSE LET s2 == [RemoveObject(s1, e.URL) EXCEPT ![e.URL] = FileObject(size, modTime)]
           e2 == [e EXCEPT !.file = HandleOf(s2, e.URL),
                           !.exists = TRUE, !.deleted = FALSE]
       IN [ret |-> IF closeFails THEN BoundaryError ELSE Ok,
           f |-> e2, remote |-> s2,
           log |-> dlog \o <<Ev("UploadFromReader", NilProfile, e.URL, TRUE),
                              Ev("r.Close", NilProfile, e.URL, ~closeFails)>>]

\* the upload of Write and what follows it, from store s1, after the calls dlog
Upload(e, s1, size, modTime, upFails, closeFails, dlog) ==
  IF ~(CanUpload(s1, e.URL) /\ ~upFails)
  THEN [ret |-> BoundaryError, f |-> e, remote |-> s1,
        log |-> dlog \o <<Ev("UploadFromReader", NilProfile, e.URL, FALSE)>>]
  ELSE LET s2 == [RemoveObject(s1, e.URL) EXCEPT ![e.URL] = FileObject(size, modTime)]
           e2 == [e EXCEPT !.file = HandleOf(s2, e.URL),
                           !.exists = TRUE, !.deleted = FALSE]
       IN [ret |-> IF closeFails THEN BoundaryError ELSE Ok,
           f |-> e2, remote |-> s2,
           log |-> dlog \o <<Ev("UploadFromReader", NilProfile, e.URL, TRUE),
                              Ev("r.Close", NilProfile, e.URL, ~closeFails)>>]

\* Write going on to the upload when file.Delete has failed
WriteIgnoresDeleteError(e, store, size, modTime, delFails, upFails, closeFails) ==
  IF IsDir(e) THEN [ret |-> InvalidOperation, f |-> e, remote |-> store, log |-> <<>>]
  ELSE LET delOk == Serves(store, e.file) /\ ~delFails
           dlog == IF e.exists
                   THEN <<Ev("file.Delete", NilProfile, e.file.URL, delOk)>>
                   ELSE <<>>
           s1 == IF e.exists /\ delOk THEN RemoveObject(store, e.file.URL) ELSE store
       IN Upload(e, s1, size, modTime, upFails, closeFails, dlog)

\* Write keeping the old handle after the upload
WriteKeepsHandle(e, store, size, modTime, delFails, upFails, closeFails) ==
  IF IsDir(e) THEN [ret |-> InvalidOperation, f |-> e, remote |-> store, log |-> <<>>]
  ELSE LET delOk == Serves(store, e.file) /\ ~delFails
           dlog == IF e.exists
                   THEN <<Ev("file.Delete", NilProfile, e.file.URL, delOk)>>
                   ELSE <<>>
       IN IF e.exists /\ ~delOk
          THEN [ret |-> BoundaryError, f |-> e, remote |-> store, log |-> dlog]
          ELSE LET r == Upload(e, IF e.exists THEN RemoveObject(store, e.file.URL)
                                  ELSE store,
                               size, modTime, upFails, closeFails, dlog)
               IN [r EXCEPT !.f = [e EXCEPT !.exists = r.f.exists]]

\* Write without the IsDir test
WriteNoDirTest(e, store, size, modTime, delFails, upFails, closeFails) ==
  LET delOk == Serves(store, e.file) /\ ~delFails
      dlog == IF e.exists
              THEN <<Ev("file.Delete", NilProfile, e.file.URL, delOk)>>
              ELSE <<>>
  IN IF e.exists /\ ~delOk
     THEN [ret |-> BoundaryError, f |-> e, remote |-> store, log |-> dlog]
     ELSE Upload(e, IF e.exists THEN RemoveObject(store, e.file.URL) ELSE store,
                 size, modTime, upFails, closeFails, dlog)

\* delFails, upFails, closeFails: file.Delete, client.UploadFromReader and
\* r.Close fail
Write(e, store, size, modTime, delFails, upFails, closeFails) ==
  IF IsDir(e) THEN [ret |-> InvalidOperation, f |-> e, remote |-> store, log |-> <<>>]
  ELSE LET delOk == Serves(store, e.file) /\ ~delFails
           dlog == IF e.exists
                   THEN <<Ev("file.Delete", NilProfile, e.file.URL, delOk)>>
                   ELSE <<>>
       IN IF e.exists /\ ~delOk
          THEN [ret |-> BoundaryError, f |-> e, remote |-> store, log |-> dlog]
          ELSE Upload(e, IF e.exists THEN RemoveObject(store, e.file.URL) ELSE store,
                      size, modTime, upFails, closeFails, dlog)

(***************************************************************************)
(* The state machine.                                                      *)
(***************************************************************************)
\* at most one listing fails during one operation on e: that of e's folder
\* or of a folder below it
BadSets(e) == {{}} \cup {{d} : d \in {x \in DirPaths : IsPrefix(e.URL, x)}}

Done(op, p, ret, log, size) ==
  [op |-> op, p |-> p, ret |-> ret, log |-> log, size |-> size]

\* the file below the root may or may not have been uploaded yet
InitRemotes == {InitRemote, RemoveObject(InitRemote, <<0>>)}

\* the two goroutines that call StartMonitor and StopMonitor at the same time
Invocations == {1, 2}

\* a goroutine that has made no call yet
IdleCall ==
  [op |-> "idle", p |-> NilProfile, e |-> newEmptyFile(Root), pc |-> "idle",
   todo |-> <<>>, log |-> <<>>, ret |-> Ok, overlapped |-> FALSE]

Init ==
  /\ remote \in InitRemotes
  /\ watching = {}
  /\ \E n \in Paths : f = New(remote, n, FALSE).file
  /\ last = Done("New", NilProfile, Ok, <<>>, 0)
  /\ calls = [i \in Invocations |-> IdleCall]

\* New called with a path of ns
NewAt(ns) ==
  \E n \in ns, getFails \in BOOLEAN :
    LET r == New(remote, n, getFails) IN
    /\ f' = IF r.err THEN f ELSE r.file
    /\ last' = Done("New", NilProfile, IF r.err THEN BoundaryError ELSE Ok, <<>>, 0)
    /\ UNCHANGED <<remote, watching, calls>>

DoNew == NewAt(Paths)

\* the callers of Rename's specification resolve the file and the folder
\* beside it
DoNewNamed == NewAt(FilePaths \cup SibDirs)

\* StartMonitor called with a profile of ps
StartMonitorWith(ps) ==
  \E p \in ps, bad \in {{}, {f.URL}} :
    LET r == StartMonitor(f, p, watching, remote, bad) IN
    /\ watching' = r.watching
    /\ last' = Done("StartMonitor", p, r.ret, r.log, 0)
    /\ UNCHANGED <<f, remote, calls>>

DoStartMonitor == StartMonitorWith(Profiles)

\* the callers of Delete's specification monitor under one profile
DoStartMonitorP == StartMonitorWith({"P"})

\* StopMonitor called with a profile of ps
StopMonitorWith(ps) ==
  \E p \in ps, bad \in BadSets(f) :
    LET r == StopMonitor(f, p, watching, remote, bad) IN
    /\ watching' = r.watching
    /\ last' = Done("StopMonitor", p, r.ret, r.log, 0)
    /\ UNCHANGED <<f, remote, calls>>

DoStopMonitor == StopMonitorWith(Profiles)

DoStopMonitorP == StopMonitorWith({"P"})

DoDelete ==
  \E dsFails \in BOOLEAN, bad \in BadSets(f), delFails \in BOOLEAN :
    LET r == Delete(f, watching, remote, dsFails, bad, delFails) IN
    /\ watching' = r.watching
    /\ remote' = r.remote
    /\ last' = Done("Delete", NilProfile, r.ret, r.log, 0)
    /\ f' = r.f
    /\ UNCHANGED calls

DoWrite ==
  \E size \in 1..MaxSize, modTime \in Times,
     delFails \in BOOLEAN, upFails \in BOOLEAN, closeFails \in BOOLEAN :
    LET r == Write(f, remote, size, modTime, delFails, upFails, closeFails) IN
    /\ f' = r.f
    /\ remote' = r.remote
    /\ last' = Done("Write", NilProfile, r.ret, r.log, size)
    /\ UNCHANGED <<watching, calls>>

\* f.Rename(); a name is stamped once: a stamped name has no stamped name
\* in StorePaths
DoRename ==
  /\ (Exists(f) /\ ~IsDir(f)) => f.file.URL \in FilePaths
  /\ \E t \in Times, moveFails \in BOOLEAN :
       LET r == Rename(f, remote, t, moveFails) IN
         /\ f' = r.f
         /\ remote' = r.remote
         /\ last' = Done("Rename", NilProfile, r.ret, r.log, 0)
         /\ UNCHANGED <<watching, calls>>

DoRead ==
  /\ last' = Done("Read", NilProfile, Read(f), <<>>, 0)
  /\ UNCHANGED <<f, remote, watching, calls>>

DoClose ==
  /\ last' = Done("Close", NilProfile, Close(f), <<>>, 0)
  /\ UNCHANGED <<f, remote, watching, calls>>

Next ==
  \/ DoNew
  \/ DoStartMonitor
  \/ DoStopMonitor
  \/ DoDelete
  \/ DoWrite
  \/ DoRename
  \/ DoRead
  \/ DoClose

Spec == Init /\ [][Next]_vars

\* the monitor controller alone
NextMonitor ==
  \/ DoNew
  \/ DoStartMonitor
  \/ DoStopMonitor

SpecMonitor == Init /\ [][NextMonitor]_vars

\* deleting watched folders
NextDelete ==
  \/ DoNew
  \/ DoStartMonitorP
  \/ DoStopMonitorP
  \/ DoDelete

SpecDelete == Init /\ [][NextDelete]_vars

\* the file operations alone
NextFile ==
  \/ DoNew
  \/ DoWrite
  \/ DoDelete
  \/ DoRead
  \/ DoClose

SpecFile == Init /\ [][NextFile]_vars

(***************************************************************************)
(* Vocabulary of the properties.                                           *)
(***************************************************************************)
Range(s) == {s[i] : i \in 1..Len(s)}

\* the folders at and below path n that the server holds, in the order in
\* which stopWatcherRecursive lists them
RECURSIVE PreOrder(_, _)
RECURSIVE PreOrderAll(_, _, _)
PreOrderAll(store, list, i) ==
  IF i > Len(list) THEN <<>>
  ELSE (IF store[list[i]].IsDir THEN PreOrder(store, list[i]) ELSE <<>>)
       \o PreOrderAll(store, list, i + 1)

PreOrder(store, n) == <<n>> \o PreOrderAll(store, Listing(store, n), 1)

\* the folders below n, in that order
DescSeq(store, n) == Tail(PreOrder(store, n))

\* the members of s that come before k
Before(s, k) == {s[j] : j \in {i \in 1..Len(s) : \E m \in (i + 1)..Len(s) : s[m] = k}}

\* no listing failed among the calls of log
ListingsOk(log) == \A i \in 1..Len(log) : log[i].call = "Children" => log[i].ok

\* the calls of one kind in log
CallsOf(log, call) == {i \in 1..Len(log) : log[i].call = call}

(***************************************************************************)
(* Properties of the monitor controller (SpecMonitor).                     *)
(***************************************************************************)
\* C1: StopMonitor(p) on a folder watched for p, every listing succeeding,
\* returns no error, and afterwards the registry holds the pair (p, d) for
\* none of the folder and the folders nested below it.
C1_StopMonitorRemovesTree ==
  (last.op = "StopMonitor" /\ last.log # <<>> /\ ListingsOk(last.log)) =>
    /\ last.ret = Ok
    /\ \A d \in Range(PreOrder(remote, f.URL)) :
         <<last.p, FullURLOf(d)>> \notin watching

\* the root with all its nested folders was watched, and StopMonitor removed
\* every one of the pairs
C1_Witness ==
  /\ last.op = "StopMonitor"
  /\ last.ret = Ok
  /\ f.URL = Root
  /\ Len(DescSeq(remote, Root)) >= 3
  /\ \A d \in Range(PreOrder(remote, Root)) :
       /\ Ev("watching.remove", last.p, d, TRUE) \in Range(last.log)
       /\ <<last.p, FullURLOf(d)>> \notin watching

\* C2: StartMonitor(p) on a folder already watched for p returns success,
\* lists no children, dispatches no change and leaves the registry as it was.
C2_StartMonitorIdempotent ==
  [][(last'.op = "StartMonitor" /\ IsDir(f) /\ has(watching, last'.p, f)) =>
       /\ last'.ret = Ok
       /\ last'.log = <<>>
       /\ watching' = watching
       /\ Cardinality(watching') = Cardinality(watching)]_vars

\* a second StartMonitor on a watched folder that has children has returned
C2_Witness ==
  /\ last.op = "StartMonitor"
  /\ last.ret = Ok
  /\ last.log = <<>>
  /\ IsDir(f)
  /\ has(watching, last.p, f)
  /\ Listing(remote, f.URL) # <<>>

\* C3: when the listing fails in StartMonitor(p) on an unwatched folder, the
\* call returns the error, no child is dispatched and (p, folder) is not in
\* the registry afterwards; when it succeeds, the pair is added once, as the
\* last step, after a change event for every child.
C3_StartMonitorRegistersLast ==
  last.op = "StartMonitor" =>
    /\ ~ListingsOk(last.log) =>
         /\ last.ret = BoundaryError
         /\ CallsOf(last.log, "changeHandler") = {}
         /\ CallsOf(last.log, "watching.add") = {}
         /\ ~has(watching, last.p, f)
    /\ (last.ret = Ok /\ last.log # <<>>) =>
         /\ CallsOf(last.log, "watching.add") = {Len(last.log)}
         /\ last.log[Len(last.log)] = Ev("watching.add", last.p, f.URL, TRUE)
         /\ has(watching, last.p, f)
         /\ \A c \in Range(Listing(remote, f.URL)) :
              \E i \in 1..(Len(last.log) - 1) :
                last.log[i] = Ev("changeHandler", last.p, c, TRUE)

\* StartMonitor on an unwatched folder with children failed at the listing
C3_Witness ==
  /\ last.op = "StartMonitor"
  /\ last.ret = BoundaryError
  /\ ~ListingsOk(last.log)
  /\ Listing(remote, f.URL) # <<>>
  /\ ~has(watching, last.p, f)

\* the step is a StopMonitor(p) on folder f, watched for p together with all
\* the folders below it, during which the listing of k, a folder below f,
\* fails
StopFailsAt(k) ==
  /\ last'.op = "StopMonitor"
  /\ IsDir(f)
  /\ \A d \in Range(PreOrder(remote, f.URL)) : <<last'.p, FullURLOf(d)>> \in watching
  /\ k \in Range(DescSeq(remote, f.URL))
  /\ Ev("Children", NilProfile, k, FALSE) \in Range(last'.log)

\* C4 as claimed: when the listing of the K-th folder below the stopped one
\* fails, StopMonitor returns the error and exactly the first K-1 folders
\* below it are no longer registered, every other pair being kept.
C4_FirstKMinusOneRemoved ==
  [][\A k \in DirPaths : StopFailsAt(k) =>
       /\ last'.ret = BoundaryError
       /\ watching' = watching \ {<<last'.p, FullURLOf(d)>> :
                                     d \in Before(DescSeq(remote, f.URL), k)}]_vars

\* C4, amended: when the listing of the K-th folder below the stopped one
\* fails, StopMonitor returns the error, makes no further call, and exactly
\* those of the first K-1 folders that do not contain the K-th are no longer
\* registered, every other pair being kept.
C4_FinishedSubtreesRemoved ==
  [][\A k \in DirPaths : StopFailsAt(k) =>
       /\ last'.ret = BoundaryError
       /\ last'.log[Len(last'.log)] = Ev("Children", NilProfile, k, FALSE)
       /\ watching' = watching \ {<<last'.p, FullURLOf(d)>> :
                                     d \in {x \in Before(DescSeq(remote, f.URL), k) :
                                              ~IsPrefix(x, k)}}]_vars

\* StopMonitor on the watched root failed at the listing of a folder below
\* it after the pairs of two other folders had been removed; the root's pair
\* and the failing folder's pair are still there
C4_Witness ==
  /\ last.op = "StopMonitor"
  /\ last.ret = BoundaryError
  /\ f.URL = Root
  /\ \E k \in Range(DescSeq(remote, Root)) :
       /\ last.log[Len(last.log)] = Ev("Children", NilProfile, k, FALSE)
       /\ has(watching, last.p, newFromFile(HandleOf(remote, k)))
  /\ Cardinality({i \in CallsOf(last.log, "watching.remove") : last.log[i].ok}) >= 2
  /\ has(watching, last.p, f)

(***************************************************************************)
(* Properties of Write (SpecFile).                                         *)
(***************************************************************************)
\* C5: Write closes the reader before it returns, on every exit path: when
\* the file is a folder, when file.Delete fails, when the upload fails and
\* when it succeeds.
C5_WriteClosesReader ==
  last.op = "Write" => CallsOf(last.log, "r.Close") # {}

\* C6: Write on an existing file that is no folder calls file.Delete on the
\* old object first and uploads after it; when that delete fails, Write
\* returns the error, makes no upload call, and file, exists and deleted are
\* as they were.
C6_WriteDeletesFirst ==
  [][(last'.op = "Write" /\ ~IsDir(f) /\ f.exists) =>
       /\ last'.log # <<>>
       /\ last'.log[1].call = "file.Delete"
       /\ last'.log[1].n = f.file.URL
       /\ CallsOf(last'.log, "file.Delete") = {1}
       /\ ~last'.log[1].ok =>
            /\ last'.ret = BoundaryError
            /\ CallsOf(last'.log, "UploadFromReader") = {}
            /\ f'.file = f.file
            /\ f'.exists = f.exists
            /\ f'.deleted = f.deleted
            /\ remote' = remote]_vars

\* Write on an existing file returned after file.Delete failed; the old
\* object is still on the server
C6_Witness ==
  /\ last.op = "Write"
  /\ last.ret = BoundaryError
  /\ last.log = <<Ev("file.Delete", NilProfile, f.URL, FALSE)>>
  /\ f.exists
  /\ ~IsDir(f)
  /\ remote[f.URL].present

\* C8: after Write has succeeded on a file that is no folder, Exists() is
\* true, Deleted() is false, the file holds the handle of the uploaded object,
\* Size() is the uploaded size, and Read and Close are forwarded to the
\* handle.
C8_WriteAdoptsUpload ==
  (last.op = "Write" /\ last.ret = Ok) =>
    /\ Exists(f)
    /\ ~Deleted(f)
    /\ f.file = HandleOf(remote, f.URL)
    /\ remote[f.URL] = FileObject(last.size, remote[f.URL].ModifiedTime)
    /\ Size(f) = last.size
    /\ Read(f) = "forwarded"
    /\ Close(f) = "forwarded"

\* Write has replaced an object by one of another size
C8_Witness ==
  /\ last.op = "Write"
  /\ last.ret = Ok
  /\ CallsOf(last.log, "file.Delete") # {}
  /\ Size(f) = MaxSize
  /\ Size(f) # InitRemote[f.URL].Size

\* C9: Write on a folder fails with InvalidOperation, makes no call to the
\* server and changes nothing of the file.
C9_WriteRefusesFolder ==
  [][(last'.op = "Write" /\ IsDir(f)) =>
       /\ last'.ret = InvalidOperation
       /\ last'.log = <<>>
       /\ f' = f
       /\ remote' = remote]_vars

\* Write on a folder has been refused
C9_Witness ==
  /\ last.op = "Write"
  /\ last.ret = InvalidOperation
  /\ IsDir(f)
  /\ remote[f.URL].present

(***************************************************************************)
(* Properties of Delete (SpecDelete).                                      *)
(***************************************************************************)
\* C7: after Delete has succeeded on an existing folder, the registry holds
\* no pair (p, d) for the folder or for a folder below it.
C7_DeleteUnwatchesTree ==
  (last.op = "Delete" /\ last.ret = Ok /\ IsDir(f)) =>
    \A p \in Profiles, d \in {x \in DirPaths : IsPrefix(f.URL, x)} :
      <<p, FullURLOf(d)>> \notin watching

\* C10: Delete on a file with exists = false returns success without the
\* delete-tracking store call and without file.Delete, and leaves the
\* registry, the file and the server as they were.
C10_DeleteAbsentIsNoOp ==
  [][(last'.op = "Delete" /\ ~f.exists) =>
       /\ last'.ret = Ok
       /\ last'.log = <<>>
       /\ watching' = watching
       /\ f' = f
       /\ remote' = remote]_vars

\* Delete has returned on a file that does not exist, with folders watched
C10_Witness ==
  /\ last.op = "Delete"
  /\ last.ret = Ok
  /\ last.log = <<>>
  /\ ~f.exists
  /\ watching # {}

(***************************************************************************)
(* StartMonitor and StopMonitor called by two goroutines at the same time. *)
(* A call takes one step for its tests up to watching.has, and one step    *)
(* for each call it makes after them: f.Children, changeHandler,           *)
(* watching.add, watching.remove.  The store does not change meanwhile, so *)
(* the calls a StartMonitor or StopMonitor is to make are those of its     *)
(* record when no listing fails; a listing may fail when its step comes.   *)
(***************************************************************************)
\* the folders the goroutines monitor: the innermost folder and its parent
ConcDirs == {Chain(MaxDepth - 1), Chain(MaxDepth)}

\* goroutine i enters StartMonitor(P) or StopMonitor(P) on a folder and runs
\* up to the test of the registry (remote.go:255-261, 283-289)
EnterMonitor(i) ==
  /\ calls[i].pc \in {"idle", "done"}
  /\ \E op \in {"StartMonitor", "StopMonitor"}, n \in ConcDirs :
       LET e == New(remote, n, FALSE).file
           r == IF op = "StartMonitor"
                THEN StartMonitor(e, "P", watching, remote, {})
                ELSE StopMonitor(e, "P", watching, remote, {})
           goesOn == r.log # <<>>
       IN calls' = [j \in Invocations |->
                      IF j = i
                      THEN [op |-> op, p |-> "P", e |-> e,
                            pc |-> IF goesOn THEN "run" ELSE "done",
                            todo |-> r.log, log |-> <<>>,
                            ret |-> IF goesOn THEN Ok ELSE r.ret,
                            overlapped |-> \E k \in Invocations \ {i} :
                                             calls[k].pc = "run"]
                      ELSE [calls[j] EXCEPT
                              !.overlapped = @ \/ calls[j].pc = "run"]]
  /\ UNCHANGED <<f, remote, watching, last>>

\* goroutine i makes the next call of its StartMonitor or StopMonitor
StepMonitor(i) ==
  /\ calls[i].pc = "run"
  /\ LET c == calls[i]
         ev == Head(c.todo)
         ent == newFromFile(HandleOf(remote, ev.n))
     IN \E fails \in BOOLEAN :
          /\ fails => ev.call = "Children"
          /\ IF fails
             THEN /\ calls' = [calls EXCEPT
                                ![i].pc = "done", ![i].ret = BoundaryError,
                                ![i].todo = <<>>,
                                ![i].log = Append(c.log, [ev EXCEPT !.ok = FALSE])]
                  /\ UNCHANGED watching
             ELSE /\ watching' =
                       IF ev.call = "watching.add" THEN add(watching, ev.p, ent)
                       ELSE IF ev.call = "watching.remove"
                       THEN remove(watching, ev.p, ent)
                       ELSE watching
                  /\ calls' = [calls EXCEPT
                                ![i].pc = IF Len(c.todo) = 1 THEN "done" ELSE "run",
                                ![i].todo = Tail(c.todo),
                                ![i].log =
                                  Append(c.log,
                                         IF ev.call = "watching.remove"
                                         THEN [ev EXCEPT !.ok = has(watching, ev.p, ent)]
                                         ELSE ev)]
  /\ UNCHANGED <<f, remote, last>>

InitConcurrent ==
  /\ remote = InitRemote
  /\ watching = {}
  /\ f = New(remote, Root, FALSE).file
  /\ last = Done("New", NilProfile, Ok, <<>>, 0)
  /\ calls = [i \in Invocations |-> IdleCall]

NextConcurrent == \E i \in Invocations : EnterMonitor(i) \/ StepMonitor(i)

SpecConcurrent == InitConcurrent /\ [][NextConcurrent]_vars

(***************************************************************************)
(* New, Write, Delete and Rename on the store.                             *)
(***************************************************************************)
NextRename == DoNewNamed \/ DoWrite \/ DoDelete \/ DoRename

SpecRename == Init /\ [][NextRename]_vars

\* C11: Delete on an existing file calls the delete-tracking store first,
\* then (for a folder only) unwatches recursively, then calls file.Delete.
\* When the store call fails, Delete returns the error with no unwatch and no
\* file.Delete; when the unwatch fails, it returns the error with no
\* file.Delete.
C11_DeleteStepsInOrder ==
  (last.op = "Delete" /\ f.exists) =>
    LET log == last.log
        unwatch == CallsOf(log, "Children") \cup CallsOf(log, "watching.remove")
    IN /\ log # <<>>
       /\ CallsOf(log, "deleteRemoteFileFromDS") = {1}
       /\ ~log[1].ok => (last.ret = BoundaryError /\ Len(log) = 1)
       /\ ~IsDir(f) => unwatch = {}
       /\ (IsDir(f) /\ log[1].ok) => 2 \in CallsOf(log, "Children")
       /\ \A i \in unwatch, j \in CallsOf(log, "file.Delete") : 1 < i /\ i < j
       /\ ~ListingsOk(log) =>
            (last.ret = BoundaryError /\ CallsOf(log, "file.Delete") = {})
       /\ (log[1].ok /\ ListingsOk(log)) =>
            /\ CallsOf(log, "file.Delete") = {Len(log)}
            /\ log[Len(log)].n = f.file.URL
            /\ last.ret = (IF log[Len(log)].ok THEN Ok ELSE BoundaryError)

\* Delete on a folder with a folder below it made the three kinds of call
\* and returned success
C11_Witness ==
  /\ last.op = "Delete"
  /\ last.ret = Ok
  /\ IsDir(f)
  /\ Cardinality(CallsOf(last.log, "watching.remove")) >= 2
  /\ CallsOf(last.log, "deleteRemoteFileFromDS") # {}
  /\ CallsOf(last.log, "file.Delete") # {}

\* C12: after any sequence of New, Write, Delete and Rename, a file that
\* does not exist has size 0, is no folder and has the zero modification
\* time, and a folder has the zero modification time.
C12_AccessorsOfAbsentAndFolder ==
  /\ ~Exists(f) => (Size(f) = 0 /\ ~IsDir(f) /\ Modified(f) = ZeroTime)
  /\ IsDir(f) => Modified(f) = ZeroTime

\* a folder whose ModifiedTime field is not the zero time, after its Delete
C12_Witness ==
  /\ last.op = "Delete"
  /\ last.ret = Ok
  /\ IsDir(f)
  /\ f.ModifiedTime # ZeroTime

\* C14: after Rename has succeeded on an existing file that is no folder,
\* the URL of the file, which Path(p) is computed from, is the time-stamped
\* name that was passed to file.Move.
C14_RenameSetsURL ==
  (last.op = "Rename" /\ last.ret = Ok) =>
    (f.URL = last.log[1].n /\ Path(f, Root) = last.log[1].n)

\* C13: StartMonitor(P) and StopMonitor(P) on a file that is no folder, a
\* live file or one that does not exist, fail with InvalidOperation, list no
\* children, dispatch nothing and leave the registry as it was, also when the
\* pair (P, file) is in the registry.
C13_MonitorRefusesNonFolder ==
  [][(last'.op \in {"StartMonitor", "StopMonitor"} /\ ~IsDir(f)) =>
       /\ last'.ret = InvalidOperation
       /\ last'.log = <<>>
       /\ watching' = watching]_vars

\* StopMonitor(P) was refused on a file that does not exist while its pair
\* is in the registry
C13_Witness ==
  /\ last.op = "StopMonitor"
  /\ last.ret = InvalidOperation
  /\ ~Exists(f)
  /\ has(watching, last.p, f)

\* C18: StopMonitor(P) on a folder that is not watched for P returns success,
\* lists nothing and leaves every entry of the registry as it was, the pairs
\* (P, d) of folders d below it included.
C18_StopUnwatchedIsNoOp ==
  [][(last'.op = "StopMonitor" /\ IsDir(f) /\ ~has(watching, last'.p, f)) =>
       /\ last'.ret = Ok
       /\ last'.log = <<>>
       /\ watching' = watching]_vars

\* StopMonitor(P) returned at once on an unwatched folder above a folder that
\* is watched for P
C18_Witness ==
  /\ last.op = "StopMonitor"
  /\ last.ret = Ok
  /\ last.log = <<>>
  /\ IsDir(f)
  /\ ~has(watching, last.p, f)
  /\ \E d \in Below(f.URL) : <<last.p, FullURLOf(d)>> \in watching

\* C16: within one StopMonitor(P) the pairs are removed children before
\* parent: when the pair of a folder d is removed, the pair of every folder
\* below d has been removed before.
C16_RemovesChildrenFirst ==
  last.op = "StopMonitor" =>
    \A i \in CallsOf(last.log, "watching.remove") :
      \A d \in Below(last.log[i].n) :
        (remote[d].present /\ remote[d].IsDir) =>
          \E j \in CallsOf(last.log, "watching.remove") :
            j < i /\ last.log[j].n = d /\ last.log[j].p = last.log[i].p

\* StopMonitor(P) has removed the pairs of the root folder and of the folders
\* below it, which were all watched
C16_Witness ==
  /\ last.op = "StopMonitor"
  /\ last.ret = Ok
  /\ f.URL = Root
  /\ Cardinality(CallsOf(last.log, "watching.remove")) = Cardinality(DirPaths)
  /\ \A i \in CallsOf(last.log, "watching.remove") : last.log[i].ok

\* whether log is the record of a file.Delete that succeeded and of an
\* UploadFromReader that failed after it
DeletedThenUploadFailed(log) ==
  /\ Len(log) >= 2
  /\ log[1].call = "file.Delete" /\ log[1].ok
  /\ log[2].call = "UploadFromReader" /\ ~log[2].ok

\* C19: when Write on an existing file that is no folder has deleted the old
\* object and the upload then fails, Write returns the error and makes no
\* further call; the file keeps its handle, exists and is not deleted, while
\* the store holds no object at its path.
C19_WriteDoesNotRollBack ==
  [][(last'.op = "Write" /\ Exists(f) /\ ~IsDir(f)
        /\ DeletedThenUploadFailed(last'.log)) =>
       /\ last'.ret = BoundaryError
       /\ Len(last'.log) = 2
       /\ f' = f
       /\ Exists(f') /\ ~Deleted(f')
       /\ f'.file.valid
       /\ ~remote'[f'.URL].present
       /\ ~remote'[f'.file.URL].present]_vars

\* a Write has deleted the object of an existing file and failed to upload
C19_Witness ==
  /\ last.op = "Write"
  /\ last.ret = BoundaryError
  /\ DeletedThenUploadFailed(last.log)
  /\ Exists(f) /\ ~IsDir(f)
  /\ ~remote[f.URL].present

\* the state after a Delete that succeeded on an existing file
DeletedExisting == last.op = "Delete" /\ last.ret = Ok /\ last.log # <<>>

\* C20 as stated: Delete never changes the file: after a Delete that
\* succeeded on an existing file the file still exists and is not deleted,
\* and a second Delete calls the delete-tracking store again and issues
\* file.Delete.
C20_SecondDeleteDeletesAgain ==
  [][last'.op = "Delete" =>
       /\ f' = f
       /\ (last'.ret = Ok /\ last'.log # <<>>) => (Exists(f') /\ ~Deleted(f'))
       /\ DeletedExisting =>
            /\ CallsOf(last'.log, "deleteRemoteFileFromDS") = {1}
            /\ last'.log[1].ok => CallsOf(last'.log, "file.Delete") # {}]_vars

\* C20: Delete never changes the file: after a Delete that succeeded on an
\* existing file the file still exists and is not deleted, and a second
\* Delete is no no-op: it calls the delete-tracking store again and, unless
\* that call or the unwatch of a folder fails, issues file.Delete.
C20_SecondDeleteRunsAgain ==
  [][last'.op = "Delete" =>
       /\ f' = f
       /\ (last'.ret = Ok /\ last'.log # <<>>) => (Exists(f') /\ ~Deleted(f'))
       /\ DeletedExisting =>
            /\ CallsOf(last'.log, "deleteRemoteFileFromDS") = {1}
            /\ (last'.log[1].ok /\ ListingsOk(last'.log)) =>
                 CallsOf(last'.log, "file.Delete") = {Len(last'.log)}]_vars

\* a second Delete on a file whose object the first has deleted has called
\* the delete-tracking store and file.Delete
C20_Witness ==
  /\ last.op = "Delete"
  /\ Exists(f) /\ ~Deleted(f)
  /\ ~remote[f.file.URL].present
  /\ CallsOf(last.log, "deleteRemoteFileFromDS") = {1}
  /\ CallsOf(last.log, "file.Delete") = {Len(last.log)}
  /\ last.ret = BoundaryError

\* two calls of the goroutines that have returned and have run at the same
\* time
Concurrent(i, j) ==
  /\ i # j
  /\ calls[i].pc = "done" /\ calls[j].pc = "done"
  /\ calls[i].overlapped /\ calls[j].overlapped

\* the number of changeHandler calls for the child at path n in log
Dispatches(log, n) ==
  Cardinality({k \in CallsOf(log, "changeHandler") : log[k].n = n})

\* C15: when two StartMonitor(P) calls on the same unwatched folder run at
\* the same time, every child of the folder gets exactly one changeHandler
\* call in all, and the pair (P, folder) is registered.
C15_ConcurrentStartDispatchesOnce ==
  \A i, j \in Invocations :
    ( /\ Concurrent(i, j)
      /\ calls[i].op = "StartMonitor" /\ calls[j].op = "StartMonitor"
      /\ calls[i].e.URL = calls[j].e.URL
      /\ calls[i].ret = Ok /\ calls[j].ret = Ok ) =>
      /\ has(watching, "P", calls[i].e)
      /\ \A k \in 1..Len(Listing(remote, calls[i].e.URL)) :
           LET n == Listing(remote, calls[i].e.URL)[k] IN
           Dispatches(calls[i].log, n) + Dispatches(calls[j].log, n) = 1

\* C17: when StopMonitor(P) on a watched folder runs at the same time as
\* StartMonitor(P) on a folder directly below it and both have returned
\* success, the registry does not hold (P, child) without (P, parent).
C17_ConcurrentStopLeavesNoChild ==
  \A i, j \in Invocations :
    ( /\ Concurrent(i, j)
      /\ calls[i].op = "StopMonitor" /\ calls[j].op = "StartMonitor"
      /\ calls[j].e.URL # Root
      /\ calls[i].e.URL = ParentOf(calls[j].e.URL)
      /\ CallsOf(calls[i].log, "watching.remove") # {}
      /\ calls[i].ret = Ok /\ calls[j].ret = Ok ) =>
      ~(has(watching, "P", calls[j].e) /\ ~has(watching, "P", calls[i].e))

====
